---- MODULE Spec2Model ----
(***************************************************************************)
(* Model of the table reconstruction pass of the Ottawa public health      *)
(* agent: extract_table_data_from_powerbi_html in src/main.py.             *)
(*                                                                         *)
(* The pass walks the elements found by soup.find_all(role=[...]) in       *)
(* document order and rebuilds tables from three local buffers.  One model *)
(* action is one iteration of the for loop (lines 100-161); Finalize is    *)
(* the code after the loop (lines 163-169).                                *)
(*                                                                         *)
(* Further specifications model the code around the pass:                  *)
(*   SpecStrip     the attribute filter of src/main.py lines 86-94;        *)
(*   SpecCsv       format_datasets_as_csv of src/mcp_server.py;            *)
(*   SpecIntent    detect_intent of ottawa_public_health_agent/agent.py;   *)
(*   SpecAgent     handle_user_message, route_query, handle_outbreak_query *)
(*                 and call_with_retry of the same file;                   *)
(*   SpecLocation  get_user_location of the same file;                     *)
(*   SpecRetrieval the two page retrievals of src/main.py lines 9-82       *)
(*                 (SpecRetrievalLive adds the fairness of their steps);   *)
(*   SpecSession   the create-or-load of sessions and the runner turns of  *)
(*                 agent.py, resume_cli.py and test_compaction.py.         *)
(* Each specification leaves the variables of the others as they are       *)
(* before anything was called.                                             *)
(***************************************************************************)
EXTENDS Integers, Sequences, FiniteSets, TLC

\* ---------------------------------------------------------------- bounds
MaxItems == 4

\* Shapes of the Datasets that are linearised and reconstructed again.
MaxTables == 2

MaxRows == 2

MaxCells == 2

\* Items per invocation when several invocations follow one another.
MaxCallItems == 3

\* Elements of a parsed document whose attributes are filtered.
MaxElements == 2

\* Datasets handed to the CSV formatter.
MaxCsvTables == 2
MaxCsvRows == 2
MaxCsvCells == 2

\* Words of a user message.
MaxWords == 2

\* Largest retries argument of a routed message.
MaxRetries == 2

\* Retrieval calls made in one process.
MaxRetrievals == 2

\* User turns run through the runner, over all sessions.
MaxTurns == 4

\* ------------------------------------------------------ input vocabulary
\* get_text(strip=True) may return the empty string.
Texts == {"", "x"}

\* Values of the column-index attribute seen by the pass (strings).
ColumnIndexValues == {"0", "1"}

\* The three role values find_all lets through (main.py line 94).
Roles == {"columnheader", "rowheader", "gridcell"}

\* Attribute dictionaries of the elements of pres: role is always present
\* (find_all selected on it); column-index may be absent.
RoleOnly(r) == [k \in {"role"} |-> r]

WithIndex(r, c) == [k \in {"role", "column-index"} |-> IF k = "role" THEN r ELSE c]

AttrDicts == {RoleOnly(r) : r \in Roles} \cup {WithIndex("gridcell", c) : c \in ColumnIndexValues}

\* One element of pres: its attrs and its stripped text.
PresItems == [attrs : AttrDicts, text : Texts]

\* ------------------------------------------------------------- the locals
EmptyLocals == [column_headers |-> << >>, current_row |-> << >>, current_table |-> << >>, datasets |-> << >>, raised |-> FALSE]

\* lines 103-109 and 128-132: record the row in progress, if any.
RecordRow(st) == IF st.current_row # << >> THEN [st EXCEPT !.current_table = Append(st.current_table, st.current_row), !.current_row = << >>] ELSE st

\* line 111: the condition under which a column header starts a new table,
\* evaluated after the row in progress was recorded.
TableBoundary(st) == st.column_headers = << >> /\ st.current_table # << >>

\* RecordTable as it would be if line 111 did not test current_table != [].
RecordTableIgnoringBody(st) == IF st.column_headers = << >> THEN [st EXCEPT !.datasets = Append(st.datasets, st.current_table), !.current_table = << >>] ELSE st

\* RecordTable as it would be without the reset of line 116.
RecordTableKeepsTable(st) == IF TableBoundary(st) THEN [st EXCEPT !.datasets = Append(st.datasets, st.current_table)] ELSE st

\* lines 111-116: record the table that just ended and reset it.
RecordTable(st) == IF TableBoundary(st) THEN [st EXCEPT !.datasets = Append(st.datasets, st.current_table), !.current_table = << >>] ELSE st

\* RecordHeaders as it would be without the resets of lines 139 and 148.
RecordHeadersKeepsPending(st) == IF st.column_headers # << >> THEN [st EXCEPT !.current_table = Append(st.current_table, st.column_headers)] ELSE st

\* lines 134-139 and 145-148: record the pending header row, if any.
RecordHeaders(st) == IF st.column_headers # << >> THEN [st EXCEPT !.current_table = Append(st.current_table, st.column_headers), !.column_headers = << >>] ELSE st

\* The columnheader branch as it would be without lines 111-116.
ColumnHeaderBranchNoBoundary(st, val) == LET s1 == RecordRow(st)
                                         IN [s1 EXCEPT !.column_headers = Append(s1.column_headers, val)]

\* The columnheader branch as it would be without lines 103-109.
ColumnHeaderBranchKeepsRow(st, val) == LET s2 == RecordTable(st)
                                       IN [s2 EXCEPT !.column_headers = Append(s2.column_headers, val)]

\* lines 101-122: body of the columnheader branch; val is the cell value
\* appended (the element's text).
ColumnHeaderBranch(st, val) == LET s1 == RecordRow(st)
                                   s2 == RecordTable(s1)
                               IN [s2 EXCEPT !.column_headers = Append(s2.column_headers, val)]

\* The rowheader branch as it would be without lines 128-132.
RowHeaderBranchKeepsRow(st, val) == LET s2 == RecordHeaders(st)
                                    IN [s2 EXCEPT !.current_row = Append(s2.current_row, val)]

\* lines 126-142: body of the rowheader branch.
RowHeaderBranch(st, val) == LET s1 == RecordRow(st)
                                s2 == RecordHeaders(s1)
                            IN [s2 EXCEPT !.current_row = Append(s2.current_row, val)]

\* The lookup of line 150 as it would be if it read aria-colindex, which
\* line 92 strips from every element.
AriaIndexLookupRaises(st, attrs) == Len(st.current_row) > 1 /\ "aria-colindex" \notin DOMAIN attrs

\* line 150: pres_item.attrs['column-index'] is only evaluated when
\* len(current_row) > 1 (short-circuit and); a missing key raises KeyError.
IndexLookupRaises(st, attrs) == Len(st.current_row) > 1 /\ "column-index" \notin DOMAIN attrs

\* line 150: the row-start condition.
RowStart(st, attrs) == Len(st.current_row) > 1 /\ attrs["column-index"] = "0"

\* The gridcell branch as it would be without lines 145-148.
GridCellBranchKeepsHeaders(st, attrs, val) == IF IndexLookupRaises(st, attrs)
                                              THEN [st EXCEPT !.raised = TRUE]
                                              ELSE LET s2 == IF RowStart(st, attrs) THEN RecordRow(st) ELSE st
                                                   IN [s2 EXCEPT !.current_row = Append(s2.current_row, val)]

\* The gridcell branch as it would be without lines 150-157.
GridCellBranchNeverCloses(st, attrs, val) == LET s1 == RecordHeaders(st)
                                             IN IF IndexLookupRaises(s1, attrs)
                                                THEN [s1 EXCEPT !.raised = TRUE]
                                                ELSE [s1 EXCEPT !.current_row = Append(s1.current_row, val)]

\* lines 144-161: body of the gridcell branch.
GridCellBranch(st, attrs, val) == LET s1 == RecordHeaders(st)
                                  IN IF IndexLookupRaises(s1, attrs)
                                     THEN [s1 EXCEPT !.raised = TRUE]
                                     ELSE LET s2 == IF RowStart(s1, attrs) THEN RecordRow(s1) ELSE s1
                                          IN [s2 EXCEPT !.current_row = Append(s2.current_row, val)]

\* lines 100-161: one iteration of the loop.  The three role tests are
\* substring tests on a role that is exactly one of the three values, none
\* of which contains another, so they are mutually exclusive.
ProcessItem(st, attrs, val) == IF attrs["role"] = "columnheader" THEN ColumnHeaderBranch(st, val)
                               ELSE IF attrs["role"] = "rowheader" THEN RowHeaderBranch(st, val)
                               ELSE IF attrs["role"] = "gridcell" THEN GridCellBranch(st, attrs, val)
                               ELSE st

\* The code after the loop as it would be if line 166 were outside the if.
FinishUnconditional(st) == LET s1 == RecordRow(st)
                           IN [s1 EXCEPT !.datasets = Append(s1.datasets, s1.current_table)]

\* The code after the loop as it would be without lines 164-167.
FinishWithoutRow(st) == st

\* lines 163-169: after the loop.
Finish(st) == IF st.current_row # << >>
              THEN [st EXCEPT !.current_table = Append(st.current_table, st.current_row), !.datasets = Append(st.datasets, Append(st.current_table, st.current_row))]
              ELSE st

\* ------------------------------------------------------------------ state
\* The reconstruction pass (src/main.py).
VARIABLES pres, column_headers, current_row, current_table, datasets, pc, origin, boundary_events, todo, expected, memo

\* The attribute filter (src/main.py lines 86-93).
VARIABLES soup, parsed, stripped_once, strip_count

\* format_datasets_as_csv (src/mcp_server.py).
VARIABLES csv_datasets, output, csv_text, csv_pc, csv_i

\* The deterministic router (src/ottawa_public_health_agent/agent.py).
VARIABLES request, intent, agent_pc, stage, attempt, agent_runs, retry_calls, outbreaks, envelope

\* get_user_location (src/ottawa_public_health_agent/agent.py).
VARIABLES environ, tz_probe, ip_response, location, lookups, loc_pc

\* The page retrievals (src/main.py lines 9-82): the module flag, the
\* position and the function of the call in progress, and what is logged of
\* the calls.
VARIABLES didFrameNavigate, ret_pc, ret_fn, ret_calls, page_navigated, waited, browser_open, content_reads

\* The sessions of the session service and the run in progress
\* (agent.py lines 203-250, resume_cli.py, test_compaction.py).
VARIABLES store, recorded, session, sess_pc, turns

passVars == <<pres, column_headers, current_row, current_table, datasets, pc, origin, boundary_events, todo, expected, memo>>

stripVars == <<soup, parsed, stripped_once, strip_count>>

csvVars == <<csv_datasets, output, csv_text, csv_pc, csv_i>>

agentVars == <<request, intent, agent_pc, stage, attempt, agent_runs, retry_calls, outbreaks, envelope>>

locVars == <<environ, tz_probe, ip_response, location, lookups, loc_pc>>

retVars == <<didFrameNavigate, ret_pc, ret_fn, ret_calls, page_navigated, waited, browser_open, content_reads>>

sessVars == <<store, recorded, session, sess_pc, turns>>

vars == <<passVars, stripVars, csvVars, agentVars, locVars, retVars, sessVars>>

\* The parts of the program a specification does not exercise stay as they
\* are before anything was called.
PassIdle == /\ pres = << >>
            /\ column_headers = << >>
            /\ current_row = << >>
            /\ current_table = << >>
            /\ datasets = << >>
            /\ pc = "idle"
            /\ origin = EmptyLocals
            /\ boundary_events = 0
            /\ todo = << >>
            /\ expected = << >>
            /\ memo = << >>

StripIdle == soup = << >> /\ parsed = << >> /\ stripped_once = << >> /\ strip_count = 0

CsvIdle == csv_datasets = << >> /\ output = << >> /\ csv_text = << >> /\ csv_pc = "idle" /\ csv_i = 0

AgentIdle == /\ request = << >>
             /\ intent = ""
             /\ agent_pc = "idle"
             /\ stage = ""
             /\ attempt = 0
             /\ agent_runs = << >>
             /\ retry_calls = << >>
             /\ outbreaks = << >>
             /\ envelope = << >>

LocationIdle == environ = << >> /\ tz_probe = "" /\ ip_response = "" /\ location = << >> /\ lookups = 0 /\ loc_pc = "idle"

RetrievalIdle == didFrameNavigate = FALSE /\ ret_pc = "idle" /\ ret_fn = "" /\ ret_calls = 0 /\ page_navigated = FALSE /\ waited = FALSE /\ browser_open = {} /\ content_reads = << >>

SessionIdle == store = << >> /\ recorded = << >> /\ session = << >> /\ sess_pc = "idle" /\ turns = 0

OutsidePass == <<stripVars, csvVars, agentVars, locVars, retVars, sessVars>>

OutsidePassIdle == StripIdle /\ CsvIdle /\ AgentIdle /\ LocationIdle /\ RetrievalIdle /\ SessionIdle

OutsideStrip == <<passVars, csvVars, agentVars, locVars, retVars, sessVars>>

OutsideStripIdle == PassIdle /\ CsvIdle /\ AgentIdle /\ LocationIdle /\ RetrievalIdle /\ SessionIdle

OutsideCsv == <<passVars, stripVars, agentVars, locVars, retVars, sessVars>>

OutsideCsvIdle == PassIdle /\ StripIdle /\ AgentIdle /\ LocationIdle /\ RetrievalIdle /\ SessionIdle

OutsideAgent == <<passVars, stripVars, csvVars, locVars, retVars, sessVars>>

OutsideAgentIdle == PassIdle /\ StripIdle /\ CsvIdle /\ LocationIdle /\ RetrievalIdle /\ SessionIdle

OutsideLocation == <<passVars, stripVars, csvVars, agentVars, retVars, sessVars>>

OutsideLocationIdle == PassIdle /\ StripIdle /\ CsvIdle /\ AgentIdle /\ RetrievalIdle /\ SessionIdle

OutsideRetrieval == <<passVars, stripVars, csvVars, agentVars, locVars, sessVars>>

OutsideRetrievalIdle == PassIdle /\ StripIdle /\ CsvIdle /\ AgentIdle /\ LocationIdle /\ SessionIdle

OutsideSession == <<passVars, stripVars, csvVars, agentVars, locVars, retVars>>

OutsideSessionIdle == PassIdle /\ StripIdle /\ CsvIdle /\ AgentIdle /\ LocationIdle /\ RetrievalIdle

\* The locals of the pass as one record.
Locals == [column_headers |-> column_headers, current_row |-> current_row, current_table |-> current_table, datasets |-> datasets, raised |-> pc = "raised"]

Init == /\ pres = << >>
        /\ column_headers = << >>
        /\ current_row = << >>
        /\ current_table = << >>
        /\ datasets = << >>
        /\ pc = "loop"
        /\ origin = EmptyLocals
        /\ boundary_events = 0
        /\ todo = << >>
        /\ expected = << >>
        /\ memo = << >>
        /\ OutsidePassIdle

\* The effect of one loop iteration on item it, the n-th element of pres.
Iterate(it, n) == LET st == ProcessItem(Locals, it.attrs, it.text)
                      og == ProcessItem(origin, it.attrs, n)
                  IN /\ column_headers' = st.column_headers
                     /\ current_row' = st.current_row
                     /\ current_table' = st.current_table
                     /\ datasets' = st.datasets
                     /\ pc' = IF st.raised THEN "raised" ELSE "loop"
                     /\ origin' = og
                     /\ boundary_events' = boundary_events + (IF it.attrs["role"] = "columnheader" /\ TableBoundary(RecordRow(Locals)) THEN 1 ELSE 0)

\* One iteration of the for loop on the next element of the stream.
LoopItem == /\ pc = "loop"
            /\ Len(pres) < MaxItems
            /\ \E it \in PresItems :
                  /\ pres' = Append(pres, it)
                  /\ Iterate(it, Len(pres) + 1)
            /\ UNCHANGED <<todo, expected, memo, OutsidePass>>

\* The stream is exhausted: the code after the loop runs and returns.
Finalize == /\ pc = "loop"
            /\ todo = << >>
            /\ LET st == Finish(Locals)
                   og == Finish(origin)
               IN /\ current_table' = st.current_table
                  /\ datasets' = st.datasets
                  /\ origin' = og
            /\ pc' = "done"
            /\ UNCHANGED <<pres, column_headers, current_row, boundary_events, todo, expected, memo, OutsidePass>>

Next == LoopItem \/ Finalize

Spec == Init /\ [][Next]_vars

\* ------------------------------------------------- reading the output
RECURSIVE Flatten(_)
\* Concatenation of a sequence of sequences, in order.
Flatten(ss) == IF ss = << >> THEN << >> ELSE Head(ss) \o Flatten(Tail(ss))

\* All cells of all rows of all tables of a Dataset, in output order.
Cells(ds) == Flatten(Flatten(ds))

\* The text values of the input stream, in input order.
InputTexts == [k \in 1..Len(pres) |-> pres[k].text]

RoleAt(k) == pres[k].attrs["role"]

\* origin mirrors the four buffers with the input position of every cell
\* instead of its text: these read the texts back.
TextOfRow(r) == [j \in 1..Len(r) |-> pres[r[j]].text]

TextOfTable(t) == [j \in 1..Len(t) |-> TextOfRow(t[j])]

TextOfDataset(ds) == [j \in 1..Len(ds) |-> TextOfTable(ds[j])]

\* Every buffer holds exactly the texts of the items origin names.
TextsFollowOrigin == /\ column_headers = TextOfRow(origin.column_headers)
                     /\ current_row = TextOfRow(origin.current_row)
                     /\ current_table = TextOfTable(origin.current_table)
                     /\ datasets = TextOfDataset(origin.datasets)

StrictlyIncreasing(s) == \A j \in 1..(Len(s) - 1) : s[j] < s[j + 1]

\* The rows (of input positions) recorded so far, in the output or in the
\* table being assembled.
RecordedRows == UNION {{origin.datasets[t][j] : j \in 1..Len(origin.datasets[t])} : t \in 1..Len(origin.datasets)} \cup {origin.current_table[j] : j \in 1..Len(origin.current_table)}

\* The item consumed by the step being taken (the last element of pres').
NewItem == pres'[Len(pres')]

\* A step that is one loop iteration.
ItemStep == pc = "loop" /\ Len(pres') = Len(pres) + 1

\* ------------------------------------------------------------------- C1
\* C1: a GridCell item without a column-index never makes the pass fail:
\* whatever the length of the row in progress, the pass goes on and the
\* cell text is appended to the row in progress.
C1_MissingIndexIsAppended == [][(ItemStep /\ NewItem.attrs["role"] = "gridcell" /\ "column-index" \notin DOMAIN NewItem.attrs) => (pc' = "loop" /\ current_row' = Append(current_row, NewItem.text))]_vars

\* ------------------------------------------------------------------- C2
\* A data row of a Dataset: how many cells it has and whether its first
\* cell is a row header.  A row header is followed by at least one cell of
\* its row: a row made of a row header alone, followed by a row without
\* one, has the same linearisation as one row holding both.
RowShapes == {s \in [len : 1..MaxCells, rowheader : BOOLEAN] : s.rowheader => s.len >= 2}

SeqsUpTo(S, n) == UNION {[1..k -> S] : k \in 1..n}

\* A table: a non-empty header row followed by one or more data rows.
TableShapes == [headers : 1..MaxCells, rows : SeqsUpTo(RowShapes, MaxRows)]

DatasetShapes == SeqsUpTo(TableShapes, MaxTables)

RECURSIVE CellsOfRows(_)
CellsOfRows(rows) == IF rows = << >> THEN 0 ELSE Head(rows).len + CellsOfRows(Tail(rows))

RECURSIVE CellsOfTables(_)
CellsOfTables(ts) == IF ts = << >> THEN 0 ELSE Head(ts).headers + CellsOfRows(Head(ts).rows) + CellsOfTables(Tail(ts))

\* The table of shape t whose cell texts are the numerals base+1, base+2, ...
\* in row-major order (the pass never looks into a text, so distinct texts
\* lose nothing and make every misplaced cell visible).
TableOfShape(t, base) == <<[j \in 1..t.headers |-> ToString(base + j)]>> \o [r \in 1..Len(t.rows) |-> [j \in 1..t.rows[r].len |-> ToString(base + t.headers + CellsOfRows(SubSeq(t.rows, 1, r - 1)) + j)]]

DatasetOfShape(d) == [k \in 1..Len(d) |-> TableOfShape(d[k], CellsOfTables(SubSeq(d, 1, k - 1)))]

\* The header row as columnheader items.
LineariseHeader(cells) == [j \in 1..Len(cells) |-> [attrs |-> RoleOnly("columnheader"), text |-> cells[j]]]

\* A data row: an optional rowheader item, then its cells as gridcell items
\* with column-index 0, 1, 2, ...
LineariseRow(cells, shape) == [j \in 1..Len(cells) |-> IF shape.rowheader /\ j = 1 THEN [attrs |-> RoleOnly("rowheader"), text |-> cells[j]] ELSE [attrs |-> WithIndex("gridcell", ToString(IF shape.rowheader THEN j - 2 ELSE j - 1)), text |-> cells[j]]]

LineariseTable(tbl, t) == LineariseHeader(tbl[1]) \o Flatten([r \in 1..Len(t.rows) |-> LineariseRow(tbl[r + 1], t.rows[r])])

\* The Dataset ds of shape d as a flat stream, in row-major order.
Linearise(ds, d) == Flatten([k \in 1..Len(d) |-> LineariseTable(ds[k], d[k])])

InitRoundTrip == /\ \E d \in DatasetShapes :
                       /\ expected = DatasetOfShape(d)
                       /\ todo = Linearise(DatasetOfShape(d), d)
                 /\ pres = << >>
                 /\ column_headers = << >>
                 /\ current_row = << >>
                 /\ current_table = << >>
                 /\ datasets = << >>
                 /\ pc = "loop"
                 /\ origin = EmptyLocals
                 /\ boundary_events = 0
                 /\ memo = << >>
                 /\ OutsidePassIdle

\* One iteration of the for loop on the next item of the linearised Dataset.
LoopNext == /\ pc = "loop"
            /\ todo # << >>
            /\ pres' = Append(pres, Head(todo))
            /\ Iterate(Head(todo), Len(pres) + 1)
            /\ todo' = Tail(todo)
            /\ UNCHANGED <<expected, memo, OutsidePass>>

NextRoundTrip == LoopNext \/ Finalize

SpecRoundTrip == InitRoundTrip /\ [][NextRoundTrip]_vars

\* C2: linearising a Dataset (tables of a non-empty header row and one or
\* more data rows) and reconstructing the stream returns that Dataset.
C2_RoundTrip == pc = "done" => datasets = expected

\* Where the round trip fails: exactly on the streams in which a row of a
\* single gridcell is followed by a row without row header (two consecutive
\* gridcells with column-index 0, the first not preceded by its row header).
SingleCellRowFollowed == \E k \in 2..Len(pres) : /\ \A j \in {k - 1, k} : RoleAt(j) = "gridcell" /\ pres[j].attrs["column-index"] = "0"
                                                 /\ k = 2 \/ RoleAt(k - 2) # "rowheader"

RoundTripFailsOnlyOnSingleCellRows == pc = "done" => (datasets = expected <=> ~SingleCellRowFollowed)

\* ------------------------------------------------------------------- C3
\* C3: the cells of the returned Dataset, concatenated in output order, are
\* the texts of input items taken at strictly increasing input positions:
\* a subsequence of the input texts, nothing duplicated, nothing reordered.
C3_OutputIsOrderedSubsequence == pc = "done" => /\ TextsFollowOrigin
                                                /\ StrictlyIncreasing(Cells(origin.datasets))
                                                /\ \A j \in 1..Len(Cells(datasets)) : Cells(datasets)[j] = InputTexts[Cells(origin.datasets)[j]]

C3_Witness == pc = "done" /\ Len(datasets) = 2 /\ Len(Cells(datasets)) = 4 /\ Cells(datasets)[1] # Cells(datasets)[2]

\* ------------------------------------------------------------------- C4
\* C4: when the stream ends, the table being assembled is appended to the
\* Dataset, with the row in progress as its last row, if and only if the
\* row in progress is non-empty; otherwise the Dataset is left as it was.
C4_FinalTableIffPendingRow == [][(pc = "loop" /\ pc' = "done") => IF current_row # << >> THEN datasets' = Append(datasets, Append(current_table, current_row)) ELSE datasets' = datasets]_vars

C4_Witness == pc = "done" /\ current_row # << >> /\ Len(datasets) = 2 /\ Len(datasets[2]) = 2 /\ datasets[2][2] = current_row

\* ------------------------------------------------------------------- C5
\* Every GridCell of the stream carries a column-index.
WellFormed == \A k \in 1..Len(pres) : RoleAt(k) = "gridcell" => "column-index" \in DOMAIN pres[k].attrs

\* C5: on a well-formed stream the pass never raises, and on the empty
\* stream it returns the empty Dataset.
C5_WellFormedNeverRaises == /\ WellFormed => pc # "raised"
                            /\ (pc = "done" /\ pres = << >>) => datasets = << >>

C5_Witness == pc = "done" /\ WellFormed /\ Len(pres) = 4 /\ (\A k \in 1..4 : RoleAt(k) = "gridcell") /\ Len(datasets) = 1 /\ Len(datasets[1]) = 2

\* ------------------------------------------------------------------- C6
\* C6: the number of tables returned is the number of table boundaries the
\* columnheader rule detected, plus one exactly when finalization appended
\* the trailing table.
C6_TableCount == /\ pc = "loop" => Len(datasets) = boundary_events
                 /\ pc = "done" => Len(datasets) = boundary_events + (IF current_row # << >> THEN 1 ELSE 0)

C6_Witness == pc = "done" /\ boundary_events = 1 /\ Len(datasets) = 2

\* ------------------------------------------------------------------- C7
\* A recorded row (of input positions) that starts with a columnheader item.
IsHeaderRow(r) == r # << >> /\ RoleAt(r[1]) = "columnheader"

\* r is one maximal contiguous run of columnheader items of the input.
IsMaximalHeaderRun(r) == /\ \A j \in 1..Len(r) : r[j] = r[1] + j - 1 /\ RoleAt(r[j]) = "columnheader"
                         /\ r[1] = 1 \/ RoleAt(r[1] - 1) # "columnheader"
                         /\ r[Len(r)] < Len(pres) /\ RoleAt(r[Len(r)] + 1) # "columnheader"

\* C7: every header row recorded is exactly one maximal contiguous run of
\* columnheader items, in input order, and no columnheader text is recorded
\* in any other row.
C7_HeaderRowIsOneGroup == /\ TextsFollowOrigin
                          /\ \A r \in RecordedRows : IF IsHeaderRow(r) THEN IsMaximalHeaderRun(r) ELSE \A j \in 1..Len(r) : RoleAt(r[j]) # "columnheader"

C7_Witness == pc = "done" /\ Len(datasets) = 1 /\ Len(datasets[1]) = 2 /\ Len(datasets[1][1]) = 2 /\ IsHeaderRow(origin.datasets[1][1])

\* ------------------------------------------------------------------- C8
\* The tables (of input positions) recorded or being assembled.
Tables == {origin.datasets[t] : t \in 1..Len(origin.datasets)} \cup {origin.current_table}

\* C8: in every table, a header row can only be the first row: it was
\* recorded before any data row of that table.
C8_HeaderRowIsFirst == /\ TextsFollowOrigin
                       /\ \A t \in Tables : \A j \in 1..Len(t) : IsHeaderRow(t[j]) => j = 1

C8_Witness == pc = "done" /\ Len(datasets) = 2 /\ IsHeaderRow(origin.datasets[1][1]) /\ IsHeaderRow(origin.datasets[2][1])

\* ------------------------------------------------------------------- C9
\* The rows (of input positions) of the returned Dataset.
OutputRows == UNION {{origin.datasets[t][j] : j \in 1..Len(origin.datasets[t])} : t \in 1..Len(origin.datasets)}

\* C9: in the returned Dataset every rowheader item of the input is cell 0
\* of some row, and no row holds a rowheader text at another position.
C9_RowHeaderIsCellZero == pc = "done" => /\ TextsFollowOrigin
                                         /\ \A k \in 1..Len(pres) : RoleAt(k) = "rowheader" => \E r \in OutputRows : r[1] = k
                                         /\ \A r \in OutputRows : \A j \in 2..Len(r) : RoleAt(r[j]) # "rowheader"

C9_Witness == pc = "done" /\ Len(datasets) = 1 /\ Len(datasets[1]) = 2 /\ (\A j \in 1..2 : RoleAt(origin.datasets[1][j][1]) = "rowheader" /\ Len(datasets[1][j]) = 2)

\* ------------------------------------------------------------------ C10
\* How many further items the stated form of C10 looks ahead.
MaxExtension == 2

RECURSIVE ProcessAll(_, _)
\* The loop of lines 100-161 run over the items of seq, from locals st.
ProcessAll(st, seq) == IF seq = << >> \/ st.raised THEN st ELSE ProcessAll(ProcessItem(st, Head(seq).attrs, Head(seq).text), Tail(seq))

Extensions == UNION {[1..n -> PresItems] : n \in 0..MaxExtension}

\* C10 (as stated): some input leaves a header group and a row pending at
\* the same time once an item has been fully processed.
C10_BothMayBePending == pc = "loop" => \E ext \in Extensions : LET st == ProcessAll(Locals, ext) IN st.column_headers # << >> /\ st.current_row # << >>

\* C10 (amended): between items a header group and a row are never pending
\* at the same time.
C10_NeverBothPending == ~(column_headers # << >> /\ current_row # << >>)

C10_Witness == pc = "loop" /\ column_headers # << >> /\ Len(datasets) = 1 /\ RoleAt(Len(pres) - 1) # "columnheader"

\* ------------------------------------------------------------------ C11
\* s is t or t with rows appended.
IsPrefix(s, t) == Len(s) <= Len(t) /\ SubSeq(t, 1, Len(s)) = s

\* The table body at the arrival of an item: the rows recorded in
\* current_table together with the row in progress.
BodyAtArrival == IF current_row # << >> THEN Append(current_table, current_row) ELSE current_table

\* C11: during the loop the Dataset only changes on a columnheader item that
\* arrives with no header group pending and a non-empty table body, and then
\* by appending that body and resetting current_table; a rowheader or a
\* gridcell leaves the Dataset alone and only ever extends current_table,
\* and so does a columnheader arriving while a header group is pending.
C11_TableOnlyRecordedAtFreshHeader == [][ItemStep => /\ (datasets' # datasets \/ ~IsPrefix(current_table, current_table')) => (NewItem.attrs["role"] = "columnheader" /\ column_headers = << >> /\ BodyAtArrival # << >> /\ datasets' = Append(datasets, BodyAtArrival) /\ current_table' = << >>)
                                                     /\ NewItem.attrs["role"] \in {"rowheader", "gridcell"} => (datasets' = datasets /\ IsPrefix(current_table, current_table'))
                                                     /\ (NewItem.attrs["role"] = "columnheader" /\ column_headers # << >>) => (datasets' = datasets /\ current_table' = current_table)]_vars

C11_Witness == pc = "loop" /\ boundary_events = 1 /\ Len(datasets) = 1 /\ Len(datasets[1]) = 2 /\ current_table = << >> /\ Len(column_headers) = 2

\* ------------------------------------------------------------------ C12
\* C12: whenever a gridcell with column-index 0 arrives while the row in
\* progress holds exactly one cell, that cell is the text of the rowheader
\* item that came immediately before it.
C12_LoneCellIsRowHeader == [][(ItemStep /\ WellFormed /\ NewItem.attrs["role"] = "gridcell" /\ "column-index" \in DOMAIN NewItem.attrs /\ NewItem.attrs["column-index"] = "0" /\ Len(current_row) = 1) => (origin.current_row[1] = Len(pres) /\ RoleAt(Len(pres)) = "rowheader")]_vars

\* ------------------------------------------------------------------ C13
\* The items fed to the invocations that follow one another.
CallItems == {it \in PresItems : it.text = "x"}

\* What an invocation hands to its caller: the Dataset, or the KeyError.
CallResult == [raised |-> pc = "raised", datasets |-> IF pc = "done" THEN datasets ELSE << >>]

\* The locals as they would be if datasets outlived the call (a module-level
\* list, or a mutable default argument).
LocalsKeepDatasets(prev) == [EmptyLocals EXCEPT !.datasets = prev.datasets]

\* lines 95-98: every invocation creates its four buffers anew; nothing of
\* the previous invocation's locals prev is read.
LocalsAtEntry(prev) == EmptyLocals

\* One iteration of the for loop, in a process that calls the pass repeatedly.
CallLoopItem == /\ pc = "loop"
                /\ Len(pres) < MaxCallItems
                /\ \E it \in CallItems :
                      /\ pres' = Append(pres, it)
                      /\ Iterate(it, Len(pres) + 1)
                /\ UNCHANGED <<todo, expected, memo, OutsidePass>>

\* The caller keeps the input and the result of one finished invocation.
Remember == /\ pc \in {"done", "raised"}
            /\ memo = << >>
            /\ memo' = <<[input |-> pres, result |-> CallResult, between |-> FALSE]>>
            /\ UNCHANGED <<pres, column_headers, current_row, current_table, datasets, pc, origin, boundary_events, todo, expected, OutsidePass>>

\* The pass is called again in the same process (lines 85-98).
Invoke == /\ pc \in {"done", "raised"}
          /\ LET st == LocalsAtEntry(Locals)
             IN /\ column_headers' = st.column_headers
                /\ current_row' = st.current_row
                /\ current_table' = st.current_table
                /\ datasets' = st.datasets
          /\ pres' = << >>
          /\ pc' = "loop"
          /\ origin' = EmptyLocals
          /\ boundary_events' = 0
          /\ memo' = IF memo # << >> /\ memo[1].input # pres THEN <<[memo[1] EXCEPT !.between = TRUE]>> ELSE memo
          /\ UNCHANGED <<todo, expected, OutsidePass>>

NextCalls == CallLoopItem \/ Finalize \/ Remember \/ Invoke

SpecCalls == Init /\ [][NextCalls]_vars

\* C13: an invocation on the same item sequence as a remembered one returns
\* the same result, whatever was invoked before or in between.
C13_SameInputSameResult == (pc \in {"done", "raised"} /\ memo # << >> /\ memo[1].input = pres) => CallResult = memo[1].result

C13_Witness == pc = "done" /\ memo # << >> /\ memo[1].input = pres /\ memo[1].between /\ Len(pres) = 3 /\ Len(datasets) = 2

\* ------------------------------------------------------------------ C14
\* The filter list as it would be if it named column-index instead of
\* aria-colindex.
REMOVE_ATTRIBUTES_ColumnIndex == {"style", "class", "aria", "tabindex", "column-index"}

\* line 86.
REMOVE_ATTRIBUTES == {"style", "class", "aria", "tabindex", "aria-colindex"}

\* Attribute names the elements of the parsed documents carry: the two the
\* pass reads, two the filter removes and one it does not name.
AttributeNames == {"role", "column-index", "style", "aria-colindex", "aria-label"}

\* Values of the role attribute: one find_all selects, one it does not.
ElementRoles == {"gridcell", "button"}

AttributeValue(k) == IF k = "column-index" THEN "0" ELSE IF k = "aria-colindex" THEN "1" ELSE "v"

\* Attribute dictionaries over every subset of AttributeNames.
ElementAttrs == UNION {IF "role" \in D THEN {[k \in D |-> IF k = "role" THEN r ELSE AttributeValue(k)] : r \in ElementRoles} ELSE {[k \in D |-> AttributeValue(k)]} : D \in SUBSET AttributeNames}

\* The tags of a parsed document, in document order (soup.descendants).
Elements == [attrs : ElementAttrs, text : {"x"}]

Documents == UNION {[1..n -> Elements] : n \in 0..MaxElements}

\* lines 92-93: the attrs of one tag without the keys of REMOVE_ATTRIBUTES.
FilterAttrs(attrs) == [k \in (DOMAIN attrs) \ REMOVE_ATTRIBUTES |-> attrs[k]]

\* lines 90-93: the filter applied to every tag, in document order.
StripAll(doc) == [i \in 1..Len(doc) |-> [doc[i] EXCEPT !.attrs = FilterAttrs(doc[i].attrs)]]

IsGridElement(e) == "role" \in DOMAIN e.attrs /\ e.attrs["role"] \in Roles

\* What the pass reads of an element: role, column-index and text.
GridItem(e) == [attrs |-> [k \in (DOMAIN e.attrs) \cap {"role", "column-index"} |-> e.attrs[k]], text |-> e.text]

\* line 94 and the reads of lines 101-161: the GridItem sequence of a document.
GridItems(doc) == LET found == SelectSeq(doc, IsGridElement) IN [i \in 1..Len(found) |-> GridItem(found[i])]

InitStrip == /\ \E doc \in Documents : parsed = doc /\ soup = doc
             /\ stripped_once = << >>
             /\ strip_count = 0
             /\ OutsideStripIdle

\* The loop of lines 90-93 over the whole document, a first or a second time.
StripAttributes == /\ strip_count < 2
                   /\ soup' = StripAll(soup)
                   /\ stripped_once' = IF strip_count = 0 THEN <<StripAll(soup)>> ELSE stripped_once
                   /\ strip_count' = strip_count + 1
                   /\ UNCHANGED <<parsed, OutsideStrip>>

NextStrip == StripAttributes

SpecStrip == InitStrip /\ [][NextStrip]_vars

\* Element i of the filtered document is element i of the parsed one with
\* some attributes left out.
SameElementsInOrder == /\ Len(soup) = Len(parsed)
                       /\ \A i \in 1..Len(soup) : /\ soup[i].text = parsed[i].text
                                                  /\ DOMAIN soup[i].attrs \subseteq DOMAIN parsed[i].attrs
                                                  /\ \A k \in DOMAIN soup[i].attrs : soup[i].attrs[k] = parsed[i].attrs[k]

\* C14: filtering keeps the elements in order, never removes role or
\* column-index, leaves the GridItem sequence as it was, and a second
\* filtering changes nothing.
C14_StripIdempotentOrdered == strip_count >= 1 => /\ SameElementsInOrder
                                                  /\ \A i \in 1..Len(soup) : \A k \in {"role", "column-index"} : k \in DOMAIN parsed[i].attrs => k \in DOMAIN soup[i].attrs
                                                  /\ GridItems(soup) = GridItems(parsed)
                                                  /\ strip_count = 2 => (soup = stripped_once[1] /\ GridItems(soup) = GridItems(stripped_once[1]))

C14_Witness == strip_count = 2 /\ Len(parsed) = 2 /\ parsed[1] # parsed[2] /\ soup # parsed /\ Len(GridItems(soup)) = 2 /\ (\E i \in 1..2 : DOMAIN parsed[i].attrs = AttributeNames)

\* ------------------------------------------------------------------ C15
\* Strings are sequences of pieces; the line feed and the comma are pieces
\* of their own, so that lines and fields of a text can be counted.
NL == "\n"

Comma == ","

\* A cell is a string or None.
NoneCell == [kind |-> "none", chars |-> << >>]

StrCell(chars) == [kind |-> "str", chars |-> chars]

CsvCells == {NoneCell, StrCell(<< >>), StrCell(<<"a">>), StrCell(<<"a", NL, "b">>)}

CsvRows == UNION {[1..n -> CsvCells] : n \in 1..MaxCsvCells}

CsvTables == UNION {[1..n -> CsvRows] : n \in 1..MaxCsvRows}

CsvDatasets == UNION {[1..n -> CsvTables] : n \in 0..MaxCsvTables}

\* str(cell).
Str(cell) == IF cell.kind = "none" THEN <<"None">> ELSE cell.chars

\* bool(cell) is False.
Falsy(cell) == cell.kind = "none" \/ cell.chars = << >>

\* line 15, with str(cell) for every cell.
RenderCellAlwaysStr(cell) == Str(cell)

\* line 15: str(cell) if cell else "".
RenderCell(cell) == IF ~Falsy(cell) THEN Str(cell) ELSE << >>

\* sep.join(strs).
RECURSIVE JoinWith(_, _)
JoinWith(sep, strs) == IF strs = << >> THEN << >> ELSE IF Len(strs) = 1 THEN strs[1] ELSE strs[1] \o sep \o JoinWith(sep, Tail(strs))

\* line 15.
CsvRow(row) == JoinWith(<<Comma>>, [k \in 1..Len(row) |-> RenderCell(row[k])])

\* line 12, for the table at index i (from 0).
Heading(i) == <<NL, "=== Table ", ToString(i + 1), " ===", NL>>

\* lines 12-17: what one table appends to output.
TableEntries(i, table) == <<Heading(i)>> \o [j \in 1..Len(table) |-> CsvRow(table[j])] \o << << >> >>

InitCsv == /\ csv_datasets \in CsvDatasets
           /\ output = << >>
           /\ csv_text = << >>
           /\ csv_pc = "loop"
           /\ csv_i = 0
           /\ OutsideCsvIdle

\* One iteration of the loop of line 11.
FormatTable == /\ csv_pc = "loop"
               /\ csv_i < Len(csv_datasets)
               /\ output' = output \o TableEntries(csv_i, csv_datasets[csv_i + 1])
               /\ csv_i' = csv_i + 1
               /\ UNCHANGED <<csv_datasets, csv_text, csv_pc, OutsideCsv>>

\* line 18.
ReturnText == /\ csv_pc = "loop"
              /\ csv_i = Len(csv_datasets)
              /\ csv_text' = JoinWith(<<NL>>, output)
              /\ csv_pc' = "done"
              /\ UNCHANGED <<csv_datasets, output, csv_i, OutsideCsv>>

NextCsv == FormatTable \/ ReturnText

SpecCsv == InitCsv /\ [][NextCsv]_vars

\* text.split("\n").
RECURSIVE SplitLines(_)
SplitLines(text) == IF \A k \in 1..Len(text) : text[k] # NL THEN <<text>>
                    ELSE LET k == CHOOSE k \in 1..Len(text) : text[k] = NL /\ \A m \in 1..(k - 1) : text[m] # NL
                         IN <<SubSeq(text, 1, k - 1)>> \o SplitLines(SubSeq(text, k + 1, Len(text)))

\* The cells of a row, falsy ones as the empty string, with commas between.
CommaJoined(row) == JoinWith(<<Comma>>, [k \in 1..Len(row) |-> IF Falsy(row[k]) THEN << >> ELSE Str(row[k])])

\* The lines of table i (from 1): the heading between two empty lines, one
\* line per row, one blank separator line.
BlockLines(i, table) == << << >>, <<"=== Table ", ToString(i), " ===">>, << >> >> \o [j \in 1..Len(table) |-> CommaJoined(table[j])] \o << << >> >>

RECURSIVE DatasetLines(_, _)
DatasetLines(ds, i) == IF i > Len(ds) THEN << >> ELSE BlockLines(i, ds[i]) \o DatasetLines(ds, i + 1)

HeadingLines(ds) == 3 * Len(ds)

RECURSIVE TotalRows(_)
TotalRows(ds) == IF ds = << >> THEN 0 ELSE Len(ds[1]) + TotalRows(Tail(ds))

HasLineFeed(ds) == \E i \in 1..Len(ds) : \E j \in 1..Len(ds[i]) : \E k \in 1..Len(ds[i][j]) : \E m \in 1..Len(ds[i][j][k].chars) : ds[i][j][k].chars[m] = NL

\* C15: the returned text is, table after table, a heading for Table i, one
\* line per row with the cells comma-joined and falsy cells empty, and one
\* blank line; the row lines are as many as the rows of the Dataset.
C15_CsvLinesPerRow == (csv_pc = "done" /\ csv_datasets # << >>) => /\ SplitLines(csv_text) = DatasetLines(csv_datasets, 1)
                                                                     /\ Len(SplitLines(csv_text)) - HeadingLines(csv_datasets) - Len(csv_datasets) = TotalRows(csv_datasets)

\* The lines are as described for every Dataset whose cells hold no line feed.
LinesPerRowWithoutLineFeed == (csv_pc = "done" /\ csv_datasets # << >> /\ ~HasLineFeed(csv_datasets)) => /\ SplitLines(csv_text) = DatasetLines(csv_datasets, 1)
                                                            /\ Len(SplitLines(csv_text)) - HeadingLines(csv_datasets) - Len(csv_datasets) = TotalRows(csv_datasets)

\* ------------------------------------------------------------------ C19
INTENT_OUTBREAK == "outbreak"

INTENT_HEALTH_ADVICE == "health_advice"

INTENT_ANALYSIS == "analysis"

INTENT_RESEARCH == "research"

\* lines 572-582.
outbreak_terms == {"outbreak", "long term care", "ltc", "school", "hospital", "shelter", "child care", "daycare", "retirement home"}

\* lines 583-594.
health_terms == {"symptom", "prevent", "mask", "vaccine", "vaccination", "disease", "infection", "fever", "cough", "sick"}

\* lines 595-604.
analysis_terms == {"calculate", "analysis", "compute", "python", "code", "chart", "pandas", "plot"}

\* Lower-case spellings of the fragments of a message: every term, a word
\* holding no term, and two words holding a term inside them.
Spellings == outbreak_terms \cup health_terms \cup analysis_terms \cup {"hello", "encode", "preschool"}

\* Spellings that also occur written in capitals, one of each term list.
Capitalised == {"outbreak", "fever", "plot"}

\* A fragment is written in lower case or in capitals.
Words == [text : Spellings, caps : {FALSE}] \cup [text : Capitalised, caps : {TRUE}]

\* A message is the set of its fragments.
Messages == UNION {{{f[k] : k \in 1..n} : f \in [1..n -> Words]} : n \in 0..MaxWords}

\* str.lower() of a fragment and of a message.
LowerWord(w) == [w EXCEPT !.caps = FALSE]

Lower(m) == {LowerWord(w) : w \in m}

\* term occurs in a lower-case spelling as a substring.
Occurs(term, text) == term = text \/ <<term, text>> \in {<<"code", "encode">>, <<"school", "preschool">>}

\* term in msg, for the string msg as it is: capitals do not match.
TermIn(term, msg) == \E w \in msg : ~w.caps /\ Occurs(term, w.text)

\* lines 606-612 with the health test before the analysis test.
detect_intent_HealthFirst(user_message) == LET msg == Lower(user_message)
                                           IN IF \E term \in outbreak_terms : TermIn(term, msg) THEN INTENT_OUTBREAK
                                              ELSE IF \E term \in health_terms : TermIn(term, msg) THEN INTENT_HEALTH_ADVICE
                                              ELSE IF \E term \in analysis_terms : TermIn(term, msg) THEN INTENT_ANALYSIS
                                              ELSE INTENT_RESEARCH

\* lines 567-612.
detect_intent(user_message) == LET msg == Lower(user_message)
                               IN IF \E term \in outbreak_terms : TermIn(term, msg) THEN INTENT_OUTBREAK
                                  ELSE IF \E term \in analysis_terms : TermIn(term, msg) THEN INTENT_ANALYSIS
                                  ELSE IF \E term \in health_terms : TermIn(term, msg) THEN INTENT_HEALTH_ADVICE
                                  ELSE INTENT_RESEARCH

InitIntent == /\ \E m \in Messages : request = <<[user_message |-> m]>>
              /\ intent = ""
              /\ agent_pc = "detect"
              /\ stage = ""
              /\ attempt = 0
              /\ agent_runs = << >>
              /\ retry_calls = << >>
              /\ outbreaks = << >>
              /\ envelope = << >>
              /\ OutsideAgentIdle

\* One call of detect_intent on the message.
DetectIntent == /\ agent_pc = "detect"
                /\ intent' = detect_intent(request[1].user_message)
                /\ agent_pc' = "detected"
                /\ UNCHANGED <<request, stage, attempt, agent_runs, retry_calls, outbreaks, envelope, OutsideAgent>>

NextIntent == DetectIntent

SpecIntent == InitIntent /\ [][NextIntent]_vars

\* The message holds a term of the list, in whatever case it is written.
Mentions(terms) == \E w \in request[1].user_message : \E term \in terms : Occurs(term, w.text)

\* C19: every message gets one of the four intents; outbreak terms win over
\* analysis and health terms, analysis terms win over health terms, health
\* terms give health_advice, and a message with no term gives research.
C19_IntentPrecedence == agent_pc = "detected" => /\ intent \in {INTENT_OUTBREAK, INTENT_ANALYSIS, INTENT_HEALTH_ADVICE, INTENT_RESEARCH}
                                                 /\ Mentions(outbreak_terms) => intent = INTENT_OUTBREAK
                                                 /\ (~Mentions(outbreak_terms) /\ Mentions(analysis_terms)) => intent = INTENT_ANALYSIS
                                                 /\ (~Mentions(outbreak_terms) /\ ~Mentions(analysis_terms) /\ Mentions(health_terms)) => intent = INTENT_HEALTH_ADVICE
                                                 /\ (~Mentions(outbreak_terms) /\ ~Mentions(analysis_terms) /\ ~Mentions(health_terms)) => intent = INTENT_RESEARCH

C19_Witness == agent_pc = "detected" /\ intent = INTENT_ANALYSIS /\ Mentions(health_terms) /\ Mentions(analysis_terms) /\ (\E w \in request[1].user_message : w.caps)

\* ------------------------------------------------------- routed messages
\* Python's None, where a result or an argument may be None.
NoneValue == [kind |-> "None"]

EmptyDict == << >>

\* dict.update: the keys of e override those of d.
Update(d, e) == [k \in (DOMAIN d) \cup (DOMAIN e) |-> IF k \in DOMAIN e THEN e[k] ELSE d[k]]

DictArg(d) == [kind |-> "dict", dict |-> d]

\* extra_state arguments: None, the empty dict, a dict that sets the flag
\* the advice agent reads.
ExtraStates == {NoneValue, DictArg(EmptyDict), DictArg([k \in {"skip_additional_research"} |-> FALSE])}

\* intent_override arguments: None, the empty string, the four intents and a
\* string that is no intent.
IntentOverrides == {NoneValue} \cup [kind : {"str"}, value : {"", INTENT_OUTBREAK, INTENT_HEALTH_ADVICE, INTENT_ANALYSIS, INTENT_RESEARCH, "billing"}]

\* One message per intent detect_intent can give.
AgentMessages == {{[text |-> t, caps |-> FALSE]} : t \in {"outbreak", "fever", "plot", "hello"}}

\* lines 174-180: the values come from the module's globals.
LocaleState == [k \in {"current_time", "current_city", "current_region", "current_country", "current_timezone"} |-> k]

\* x or {} (lines 194 and 632).
OrEmptyDict(x) == IF x.kind = "dict" THEN x.dict ELSE EmptyDict

\* lines 170-183.
base_state(extra) == IF extra.kind = "dict" /\ extra.dict # EmptyDict THEN Update(LocaleState, extra.dict) ELSE LocaleState

\* lines 629-633: the dict literal, later keys overriding earlier ones.
AdviceExtra(outbreak_data, extra_state) == Update([k \in {"health_data", "skip_additional_research"} |-> IF k = "health_data" THEN outbreak_data ELSE TRUE], OrEmptyDict(extra_state))

\* lines 651-664 without the analysis branch.
RoutedAgentNoAnalysis(intent_value) == IF intent_value = INTENT_HEALTH_ADVICE THEN "health_advice_agent" ELSE "research_agent"

\* lines 651-664: the agent of the single call of the intents other than outbreak.
RoutedAgent(intent_value) == IF intent_value = INTENT_HEALTH_ADVICE THEN "health_advice_agent"
                             ELSE IF intent_value = INTENT_ANALYSIS THEN "data_analyst_agent"
                             ELSE "research_agent"

\* lines 650-664: the state of that single call.
RoutedState(intent_value, extra_state) == IF intent_value = INTENT_HEALTH_ADVICE THEN Update(base_state(extra_state), [k \in {"skip_additional_research"} |-> TRUE])
                                          ELSE base_state(extra_state)

\* The agent of the call in progress if handle_outbreak_query called the
\* advice agent first.
CurrentAgentAdviceFirst == IF stage = "retrieval" THEN "health_advice_agent" ELSE IF stage = "advice" THEN "retrieve_health_data_agent" ELSE RoutedAgent(intent)

\* The agent call_with_retry is running.
CurrentAgent == IF stage = "retrieval" THEN "retrieve_health_data_agent" ELSE IF stage = "advice" THEN "health_advice_agent" ELSE RoutedAgent(intent)

\* The state it passes to agent.run.
CurrentState == IF stage = "retrieval" THEN base_state(request[1].extra_state)
                ELSE IF stage = "advice" THEN base_state(DictArg(AdviceExtra(outbreaks[1], request[1].extra_state)))
                ELSE RoutedState(intent, request[1].extra_state)

\* line 197 with the test one attempt early.
IsLastAttemptEarly(n, retries) == n + 1 >= retries

\* line 197.
IsLastAttempt(n, retries) == n = retries

\* line 682 without the append.
ErrorsAfterForgetting(errors, exc) == errors

\* line 682.
ErrorsAfter(errors, exc) == Append(errors, [str_of |-> exc])

\* line 677.
ChosenIntent(user_message, intent_override) == IF intent_override.kind = "str" /\ intent_override.value # "" THEN intent_override.value ELSE detect_intent(user_message)

InitAgent == /\ request = << >>
             /\ intent = ""
             /\ agent_pc = "entry"
             /\ stage = ""
             /\ attempt = 0
             /\ agent_runs = << >>
             /\ retry_calls = << >>
             /\ outbreaks = << >>
             /\ envelope = << >>
             /\ OutsideAgentIdle

\* lines 677-680 and 650-652, 622-623: handle_user_message up to the first
\* agent.run of the first call_with_retry.
HandleUserMessage == /\ agent_pc = "entry"
                     /\ \E m \in AgentMessages, e \in ExtraStates, o \in IntentOverrides, r \in 0..MaxRetries :
                           /\ request' = <<[user_message |-> m, extra_state |-> e, intent_override |-> o, retries |-> r]>>
                           /\ intent' = ChosenIntent(m, o)
                           /\ stage' = IF ChosenIntent(m, o) = INTENT_OUTBREAK THEN "retrieval" ELSE "single"
                     /\ attempt' = 0
                     /\ agent_pc' = "calling"
                     /\ UNCHANGED <<agent_runs, retry_calls, outbreaks, envelope, OutsideAgent>>

\* One agent.run of the call in progress, as it is logged.
RunRecord(outcome, value) == [agent |-> CurrentAgent, state |-> CurrentState, retry_call |-> Len(retry_calls) + 1, attempt |-> attempt, outcome |-> outcome, value |-> value]

\* How the call in progress ends, as it is logged.
RetryCallRecord(outcome, value) == [agent |-> CurrentAgent, retries |-> request[1].retries, attempts |-> attempt + 1, outcome |-> outcome, value |-> value]

\* line 194 returns: call_with_retry returns the result; the outbreak flow
\* goes on to the advice call (lines 629-641), any other call ends the
\* routing and handle_user_message returns (line 684).
AgentRunReturns == /\ agent_pc = "calling"
                   /\ LET res == [kind |-> "result", agent |-> CurrentAgent, run |-> Len(agent_runs) + 1]
                      IN /\ agent_runs' = Append(agent_runs, RunRecord("returned", res))
                         /\ retry_calls' = Append(retry_calls, RetryCallRecord("returned", res))
                         /\ IF stage = "retrieval"
                            THEN /\ outbreaks' = <<res>>
                                 /\ stage' = "advice"
                                 /\ attempt' = 0
                                 /\ UNCHANGED <<agent_pc, envelope>>
                            ELSE /\ envelope' = <<[intent |-> intent, result |-> IF stage = "advice" THEN [kind |-> "dict", outbreaks |-> outbreaks[1], advice |-> res] ELSE res, errors |-> << >>]>>
                                 /\ agent_pc' = "returned"
                                 /\ UNCHANGED <<outbreaks, stage, attempt>>
                   /\ UNCHANGED <<request, intent, OutsideAgent>>

\* line 194 raises an Exception: lines 195-199 retry or re-raise, and the
\* re-raised exception is caught at lines 681-683.
AgentRunRaises == /\ agent_pc = "calling"
                  /\ LET exc == [kind |-> "Exception", run |-> Len(agent_runs) + 1]
                     IN /\ agent_runs' = Append(agent_runs, RunRecord("raised", exc))
                        /\ IF IsLastAttempt(attempt, request[1].retries)
                           THEN /\ retry_calls' = Append(retry_calls, RetryCallRecord("raised", exc))
                                /\ envelope' = <<[intent |-> intent, result |-> NoneValue, errors |-> ErrorsAfter(<< >>, exc)]>>
                                /\ agent_pc' = "returned"
                                /\ UNCHANGED attempt
                           ELSE /\ attempt' = attempt + 1
                                /\ UNCHANGED <<retry_calls, envelope, agent_pc>>
                  /\ UNCHANGED <<request, intent, stage, outbreaks, OutsideAgent>>

\* line 194 raises a BaseException that is no Exception (a cancellation of
\* the task, a keyboard interrupt): neither line 195 nor line 681 catches it.
AgentRunInterrupted == /\ agent_pc = "calling"
                       /\ LET exc == [kind |-> "BaseException", run |-> Len(agent_runs) + 1]
                          IN /\ agent_runs' = Append(agent_runs, RunRecord("raised", exc))
                             /\ retry_calls' = Append(retry_calls, RetryCallRecord("raised", exc))
                       /\ agent_pc' = "propagated"
                       /\ UNCHANGED <<request, intent, stage, attempt, outbreaks, envelope, OutsideAgent>>

NextAgent == HandleUserMessage \/ AgentRunReturns \/ AgentRunRaises \/ AgentRunInterrupted

SpecAgent == InitAgent /\ [][NextAgent]_vars

\* ------------------------------------------------------------------ C16
\* The agent.run invocations made by the k-th call of call_with_retry.
RunsOfCall(k) == {i \in 1..Len(agent_runs) : agent_runs[i].retry_call = k}

LastRunOfCall(k) == CHOOSE i \in RunsOfCall(k) : \A j \in RunsOfCall(k) : j <= i

AllRunsFailed(k) == \A i \in RunsOfCall(k) : agent_runs[i].outcome = "raised"

\* What holds of every finished call whatever made it raise: the attempts are
\* counted, at most retries + 1, a success is the last attempt and its result
\* is returned, and the exception raised is the last attempt's.
FinishedCallBounded(k) == LET c == retry_calls[k]
                          IN /\ Cardinality(RunsOfCall(k)) = c.attempts
                             /\ c.attempts >= 1
                             /\ c.attempts <= c.retries + 1
                             /\ \A i \in RunsOfCall(k) : agent_runs[i].agent = c.agent /\ agent_runs[i].attempt = Cardinality({j \in RunsOfCall(k) : j < i})
                             /\ \A i \in RunsOfCall(k) : agent_runs[i].outcome = "returned" => i = LastRunOfCall(k)
                             /\ c.value = agent_runs[LastRunOfCall(k)].value
                             /\ c.outcome = agent_runs[LastRunOfCall(k)].outcome

\* The call in progress has made no more attempts than retries, all failed.
CallInProgressBounded == agent_pc = "calling" => /\ attempt <= request[1].retries
                                                 /\ Cardinality(RunsOfCall(Len(retry_calls) + 1)) = attempt
                                                 /\ AllRunsFailed(Len(retry_calls) + 1)

\* C16: at most retries + 1 attempts, none after the first success, whose
\* result is returned; the call raises if and only if all retries + 1
\* attempts fail, and then with the exception of the last attempt.
C16_RaisesIffAllAttemptsFail == /\ CallInProgressBounded
                                /\ \A k \in 1..Len(retry_calls) : /\ FinishedCallBounded(k)
                                                                  /\ retry_calls[k].outcome = "raised" <=> (retry_calls[k].attempts = retry_calls[k].retries + 1 /\ AllRunsFailed(k))

\* C16 as it holds: the call raises if and only if every attempt made fails
\* and either these are all retries + 1 attempts or the last one fails with
\* an exception that is no Exception, which is raised at once; the attempts
\* before the last all fail with an Exception.
C16_RaisesIffAllFailOrInterrupted == /\ CallInProgressBounded
                                     /\ \A k \in 1..Len(retry_calls) : /\ FinishedCallBounded(k)
                                                                       /\ \A i \in RunsOfCall(k) \ {LastRunOfCall(k)} : agent_runs[i].outcome = "raised" /\ agent_runs[i].value.kind = "Exception"
                                                                       /\ retry_calls[k].outcome = "raised" <=> (AllRunsFailed(k) /\ (retry_calls[k].attempts = retry_calls[k].retries + 1 \/ retry_calls[k].value.kind = "BaseException"))

C16_Witness == /\ agent_pc = "returned"
               /\ Len(retry_calls) = 2
               /\ retry_calls[1].retries = 2
               /\ retry_calls[1].outcome = "returned" /\ retry_calls[1].attempts = 2
               /\ retry_calls[2].outcome = "raised" /\ retry_calls[2].attempts = 3 /\ retry_calls[2].value.kind = "Exception"

\* ------------------------------------------------------------------ C17
SomeCallRaised == \E k \in 1..Len(retry_calls) : retry_calls[k].outcome = "raised"

\* What route_query returns when no call raises.
RoutedResult == IF intent = INTENT_OUTBREAK THEN [kind |-> "dict", outbreaks |-> retry_calls[1].value, advice |-> retry_calls[2].value] ELSE retry_calls[1].value

\* The envelope of a message whose handling has returned.
EnvelopeAsDescribed == /\ Len(envelope) = 1
                       /\ DOMAIN envelope[1] = {"intent", "result", "errors"}
                       /\ envelope[1].intent = intent
                       /\ ~SomeCallRaised => (envelope[1].errors = << >> /\ envelope[1].result = RoutedResult /\ envelope[1].result.kind # "None")
                       /\ SomeCallRaised => (envelope[1].result = NoneValue /\ Len(envelope[1].errors) = 1 /\ envelope[1].errors[1] = [str_of |-> retry_calls[Len(retry_calls)].value])

\* C17: no exception raised while routing leaves handle_user_message; it
\* returns the envelope, with the routed result and no error when routing
\* succeeds, with result None and exactly one message when routing fails.
C17_NeverPropagates == /\ agent_pc # "propagated"
                       /\ agent_pc = "returned" => EnvelopeAsDescribed

\* C17 as it holds: no Exception raised while routing leaves
\* handle_user_message, which then returns the envelope as described; only an
\* exception that is no Exception propagates, and then nothing is returned.
C17_OnlyNonExceptionPropagates == /\ agent_pc = "returned" => EnvelopeAsDescribed
                                  /\ agent_pc = "propagated" => (envelope = << >> /\ agent_runs[Len(agent_runs)].value.kind = "BaseException")
                                  /\ (agent_runs # << >> /\ agent_runs[Len(agent_runs)].outcome = "raised" /\ agent_runs[Len(agent_runs)].value.kind = "Exception") => agent_pc \in {"calling", "returned"}
                                  /\ (agent_pc = "calling" \/ agent_pc = "entry") => envelope = << >>

C17_Witness == /\ agent_pc = "returned"
               /\ intent = INTENT_OUTBREAK
               /\ Len(retry_calls) = 2
               /\ retry_calls[1].outcome = "returned"
               /\ retry_calls[2].outcome = "raised"
               /\ envelope[1].result = NoneValue
               /\ Len(envelope[1].errors) = 1

\* ------------------------------------------------------------------ C18
\* The agents an intent runs, in order.
AgentsOfIntent(intent_value) == IF intent_value = "outbreak" THEN <<"retrieve_health_data_agent", "health_advice_agent">>
                                ELSE IF intent_value = "health_advice" THEN <<"health_advice_agent">>
                                ELSE IF intent_value = "analysis" THEN <<"data_analyst_agent">>
                                ELSE <<"research_agent">>

\* C18: the agents run are those of the intent, in its order and no other;
\* when no call fails all of them are run; a non-empty intent_override is
\* the intent, whatever the message.
C18_RoutingFollowsIntent == agent_pc # "entry" => /\ \A i \in 1..Len(agent_runs) : /\ agent_runs[i].retry_call <= Len(AgentsOfIntent(intent))
                                                                                   /\ agent_runs[i].agent = AgentsOfIntent(intent)[agent_runs[i].retry_call]
                                                  /\ \A i \in 1..(Len(agent_runs) - 1) : agent_runs[i].retry_call <= agent_runs[i + 1].retry_call
                                                  /\ (agent_pc = "returned" /\ envelope[1].errors = << >>) => [k \in 1..Len(retry_calls) |-> retry_calls[k].agent] = AgentsOfIntent(intent)
                                                  /\ (request[1].intent_override.kind = "str" /\ request[1].intent_override.value # "") => intent = request[1].intent_override.value

C18_Witness == /\ agent_pc = "returned"
               /\ intent = "billing"
               /\ detect_intent(request[1].user_message) = INTENT_OUTBREAK
               /\ envelope[1].errors = << >>
               /\ Len(agent_runs) = 2
               /\ agent_runs[2].agent = "research_agent"

\* ------------------------------------------------------------------ C20
\* lines 82-87.
LOCATION_FALLBACK == [city |-> "Ottawa", region |-> "Ontario", country |-> "Canada", timezone |-> "America/Toronto"]

\* The process environment: USER_CITY unset, empty or set; region and
\* timezone unset or set; ENABLE_IP_LOOKUP unset or one of seven strings.
EnvChoices == [USER_CITY : {"unset", "", "Paris"}, USER_REGION : {"unset", "Ile-de-France"}, USER_TIMEZONE : {"unset", "Europe/Paris"}, ENABLE_IP_LOOKUP : {"unset", "", "true", "TRUE", "True", "false", "1"}]

Environs == {[k \in {n \in DOMAIN c : c[n] # "unset"} |-> c[k]] : c \in EnvChoices}

\* What datetime.now().astimezone().tzinfo gives for the key attribute:
\* the probe raises, there is no key, the key is empty, or it is a zone name.
TzProbes == {"raises", "none", "empty", "America/Vancouver"}

\* What the lookup of lines 125-128 gives: urlopen raises, the body is not
\* JSON, the JSON is not an object, the service reports failure, or success
\* with all fields or with the status only.
IpResponses == {"urlerror", "not_json", "not_dict", "fail", "success_full", "success_partial"}

\* The decoded object of a response that is one.
ResponseData(kind) == IF kind = "fail" THEN [k \in {"status"} |-> "fail"]
                      ELSE IF kind = "success_partial" THEN [k \in {"status"} |-> "success"]
                      ELSE [status |-> "success", city |-> "Lyon", regionName |-> "Rhone", country |-> "France", timezone |-> "Europe/Paris"]

\* os.getenv(name, default) and the truth value of os.getenv(name).
Getenv(name, default) == IF name \in DOMAIN environ THEN environ[name] ELSE default

GetenvTruthy(name) == name \in DOMAIN environ /\ environ[name] # ""

\* dict.get(key, default).
DictGet(d, key, default) == IF key \in DOMAIN d THEN d[key] ELSE default

\* str.lower() on the values of ENABLE_IP_LOOKUP.
LowerStr(v) == IF v \in {"TRUE", "True"} THEN "true" ELSE v

\* line 123 with the lookup on unless switched off.
LookupEnabledByDefault == LowerStr(Getenv("ENABLE_IP_LOOKUP", "true")) = "true"

\* line 123.
LookupEnabled == LowerStr(Getenv("ENABLE_IP_LOOKUP", "false")) = "true"

\* lines 115-121: the probe gives a key that is truthy.
TzKeyFound == tz_probe \notin {"raises", "none", "empty"}

InitLocation == /\ environ \in Environs
                /\ tz_probe \in TzProbes
                /\ ip_response \in IpResponses
                /\ location = << >>
                /\ lookups = 0
                /\ loc_pc = "start"
                /\ OutsideLocationIdle

\* lines 107-124: get_user_location up to its return or to the urlopen.
GetUserLocation == /\ loc_pc = "start"
                   /\ IF GetenvTruthy("USER_CITY")
                      THEN /\ location' = <<[city |-> Getenv("USER_CITY", LOCATION_FALLBACK.city), region |-> Getenv("USER_REGION", LOCATION_FALLBACK.region), country |-> Getenv("USER_COUNTRY", LOCATION_FALLBACK.country), timezone |-> Getenv("USER_TIMEZONE", LOCATION_FALLBACK.timezone)]>>
                           /\ loc_pc' = "returned"
                           /\ UNCHANGED lookups
                      ELSE IF TzKeyFound
                      THEN /\ location' = <<[LOCATION_FALLBACK EXCEPT !.timezone = tz_probe]>>
                           /\ loc_pc' = "returned"
                           /\ UNCHANGED lookups
                      ELSE IF LookupEnabled
                      THEN /\ lookups' = lookups + 1
                           /\ loc_pc' = "lookup"
                           /\ UNCHANGED location
                      ELSE /\ location' = <<LOCATION_FALLBACK>>
                           /\ loc_pc' = "returned"
                           /\ UNCHANGED lookups
                   /\ UNCHANGED <<environ, tz_probe, ip_response, OutsideLocation>>

\* lines 125-139: the lookup answers or fails, and the function returns.
LookupResponds == /\ loc_pc = "lookup"
                  /\ location' = IF ip_response \in {"success_full", "success_partial"}
                                 THEN LET data == ResponseData(ip_response)
                                      IN <<[city |-> DictGet(data, "city", LOCATION_FALLBACK.city), region |-> DictGet(data, "regionName", LOCATION_FALLBACK.region), country |-> DictGet(data, "country", LOCATION_FALLBACK.country), timezone |-> DictGet(data, "timezone", LOCATION_FALLBACK.timezone)]>>
                                 ELSE <<LOCATION_FALLBACK>>
                  /\ loc_pc' = "returned"
                  /\ UNCHANGED <<environ, tz_probe, ip_response, lookups, OutsideLocation>>

NextLocation == GetUserLocation \/ LookupResponds

SpecLocation == InitLocation /\ [][NextLocation]_vars

\* ENABLE_IP_LOOKUP is set to a spelling of true.
ExplicitlyEnabled == "ENABLE_IP_LOOKUP" \in DOMAIN environ /\ environ["ENABLE_IP_LOOKUP"] \in {"true", "TRUE", "True"}

\* C20: a lookup is made only when it is explicitly enabled, USER_CITY is
\* not configured and no local timezone key is available, and at most once;
\* whatever the lookup gives, the function returns a location with city,
\* region, country and timezone.
C20_LookupOnlyWhenEnabled == /\ lookups > 0 => /\ ExplicitlyEnabled
                                               /\ ~("USER_CITY" \in DOMAIN environ /\ environ["USER_CITY"] # "")
                                               /\ tz_probe \in {"raises", "none", "empty"}
                             /\ lookups <= 1
                             /\ loc_pc = "lookup" => ENABLED LookupResponds
                             /\ loc_pc = "returned" => (Len(location) = 1 /\ DOMAIN location[1] = {"city", "region", "country", "timezone"})

C20_Witness == /\ loc_pc = "returned"
               /\ lookups = 1
               /\ ip_response = "urlerror"
               /\ environ["ENABLE_IP_LOOKUP"] = "TRUE"
               /\ location[1] = LOCATION_FALLBACK

\* ------------------------------------------------------------------ C23
\* The arriving item is a gridcell whose column-index, if it has one, is read
\* without failure.
GridCellArrives == ItemStep /\ NewItem.attrs["role"] = "gridcell" /\ ("column-index" \in DOMAIN NewItem.attrs \/ Len(current_row) <= 1)

ClosesRow == Len(current_row) > 1 /\ NewItem.attrs["column-index"] = "0"

\* The table being assembled once a pending header row is recorded.
TableWithHeaders == IF column_headers # << >> THEN Append(current_table, column_headers) ELSE current_table

\* C23: a gridcell closes the row in progress exactly when that row holds
\* more than one cell and the column-index is 0: the closed row goes to the
\* table without the cell, which alone is the new row in progress; any other
\* gridcell is appended to the row in progress and adds no row to the table
\* but a pending header row.
C23_GridCellClosesRowIff == [][GridCellArrives => /\ pc' = "loop"
                                                  /\ datasets' = datasets
                                                  /\ column_headers' = << >>
                                                  /\ ClosesRow => (current_table' = Append(TableWithHeaders, current_row) /\ current_row' = <<NewItem.text>>)
                                                  /\ ~ClosesRow => (current_table' = TableWithHeaders /\ current_row' = Append(current_row, NewItem.text))]_vars

C23_Witness == /\ pc = "loop"
               /\ Len(pres) = 3
               /\ \A k \in 1..3 : RoleAt(k) = "gridcell" /\ "column-index" \in DOMAIN pres[k].attrs
               /\ pres[3].attrs["column-index"] = "0"
               /\ origin.current_table = << <<1, 2>> >>
               /\ origin.current_row = <<3>>

\* ------------------------------------------------------------------ C29
\* The number of columnheader items that end the stream.
RECURSIVE TrailingHeaders(_)
TrailingHeaders(n) == IF n = 0 \/ RoleAt(n) # "columnheader" THEN 0 ELSE 1 + TrailingHeaders(n - 1)

KeptItems == Len(pres) - TrailingHeaders(Len(pres))

\* C29: the cells of the output, concatenated, are the input texts without
\* the run of columnheader items that ends the stream: every other item,
\* header groups followed by a cell included, is in the output, in place.
C29_OnlyTrailingHeadersDropped == pc = "done" => /\ Cells(origin.datasets) = [k \in 1..KeptItems |-> k]
                                                 /\ Cells(datasets) = SubSeq(InputTexts, 1, KeptItems)

C29_Witness == /\ pc = "done"
               /\ Len(pres) = 4
               /\ RoleAt(1) = "columnheader" /\ RoleAt(2) = "gridcell" /\ RoleAt(3) = "columnheader" /\ RoleAt(4) = "columnheader"
               /\ pres[1].text # pres[2].text
               /\ Len(datasets) = 1
               /\ Len(Cells(datasets)) = 2

\* ------------------------------------------------------------------ C24
\* C24: every agent.run on the health-advice agent has
\* skip_additional_research true in its state, whatever extra_state is.
C24_AdviceAlwaysSkipsResearch == \A i \in 1..Len(agent_runs) : agent_runs[i].agent = "health_advice_agent" => ("skip_additional_research" \in DOMAIN agent_runs[i].state /\ agent_runs[i].state["skip_additional_research"] = TRUE)

\* The flag is forced where route_query calls the advice agent itself
\* (intent health_advice, line 654).
SkipForcedOutsideOutbreakFlow == \A i \in 1..Len(agent_runs) : (agent_runs[i].agent = "health_advice_agent" /\ intent # INTENT_OUTBREAK) => ("skip_additional_research" \in DOMAIN agent_runs[i].state /\ agent_runs[i].state["skip_additional_research"] = TRUE)

\* ------------------------------------------------------------------ C25
RetrievalRuns == {i \in 1..Len(agent_runs) : agent_runs[i].agent = "retrieve_health_data_agent"}

AdviceRuns == {i \in 1..Len(agent_runs) : agent_runs[i].agent = "health_advice_agent"}

\* Every advice invocation comes after a retrieval invocation that returned.
AdviceOnlyAfterRetrieval == \A i \in AdviceRuns : \E j \in RetrievalRuns : j < i /\ agent_runs[j].outcome = "returned"

\* Both calls returned and the result holds what each returned.
BothInResult == (Len(retry_calls) = 2 /\ retry_calls[1].outcome = "returned" /\ retry_calls[2].outcome = "returned") =>
                   (agent_pc = "returned" /\ envelope[1].result = [kind |-> "dict", outbreaks |-> agent_runs[LastRunOfCall(1)].value, advice |-> agent_runs[LastRunOfCall(2)].value] /\ envelope[1].errors = << >>)

RetrievalFailedThroughout == /\ Cardinality(RetrievalRuns) = request[1].retries + 1
                             /\ \A j \in RetrievalRuns : agent_runs[j].outcome = "raised"

\* The envelope of a failed retrieval: no result, the one error of the last
\* retrieval attempt.
RetrievalErrorReturned == /\ agent_pc = "returned"
                          /\ envelope[1].result = NoneValue
                          /\ envelope[1].errors = <<[str_of |-> agent_runs[Len(agent_runs)].value]>>
                          /\ agent_runs[Len(agent_runs)].agent = "retrieve_health_data_agent"

\* C25: in the outbreak flow the advice agent runs only after the retrieval
\* agent returned; when retrieval fails on all retries + 1 attempts the advice
\* agent never runs and the envelope has result None and the retrieval error;
\* when both succeed the result holds the outbreaks and the advice.
C25_AdviceAfterRetrieval == (agent_pc # "entry" /\ intent = INTENT_OUTBREAK) => /\ AdviceOnlyAfterRetrieval
                                                                                /\ BothInResult
                                                                                /\ RetrievalFailedThroughout => (AdviceRuns = {} /\ RetrievalErrorReturned)

\* C25 as it holds: the envelope with result None and the retrieval error is
\* returned when the last of the retries + 1 failures is an Exception; when
\* an attempt fails with an exception that is no Exception, the advice agent
\* never runs either, and the exception propagates.
C25_AdviceAfterRetrievalOrPropagates == (agent_pc # "entry" /\ intent = INTENT_OUTBREAK) => /\ AdviceOnlyAfterRetrieval
                                                                                            /\ BothInResult
                                                                                            /\ (RetrievalFailedThroughout /\ \A j \in RetrievalRuns : agent_runs[j].value.kind = "Exception") => (AdviceRuns = {} /\ RetrievalErrorReturned)
                                                                                            /\ (\E j \in RetrievalRuns : agent_runs[j].outcome = "raised" /\ agent_runs[j].value.kind = "BaseException") => (AdviceRuns = {} /\ agent_pc = "propagated" /\ envelope = << >>)

C25_Witness == /\ agent_pc = "returned"
               /\ intent = INTENT_OUTBREAK
               /\ request[1].retries = 2
               /\ Cardinality(RetrievalRuns) = 3
               /\ \A j \in RetrievalRuns : agent_runs[j].outcome = "raised"
               /\ AdviceRuns = {}
               /\ envelope[1].result = NoneValue
               /\ Len(envelope[1].errors) = 1

\* ------------------------------------------------------ page retrievals
\* retrieve_dom_for_outbreaks_report and
\* retrieve_dom_for_diseases_of_ph_significance.
RetrievalFunctions == {"outbreaks", "diseases"}

\* What query_selector_all finds at line 71.
ButtonsFound == {0, 2, 3}

\* lines 45 and 67 as they would be without the test of the flag.
WaitOverAtOnce == TRUE

\* lines 45 and 67: the loop condition is false.
WaitOver == didFrameNavigate

\* The call in progress has a page with the handler of line 40/62 registered.
PageListening == ret_pc \in {"goto", "wait", "buttons", "content", "write"}

CallEnded == ret_pc \in {"returned", "failed"}

\* Module load: lines 9-22.
InitRetrieval == /\ didFrameNavigate = FALSE
                 /\ ret_pc = "idle"
                 /\ ret_fn = ""
                 /\ ret_calls = 0
                 /\ page_navigated = FALSE
                 /\ waited = FALSE
                 /\ browser_open = {}
                 /\ content_reads = << >>
                 /\ OutsideRetrievalIdle

\* lines 36-42 and 58-64: playwright is started, the browser launched, the
\* page opened, the handlers registered and page.goto called.
StartRetrieval == /\ ret_pc \in {"idle", "returned", "failed"}
                  /\ ret_calls < MaxRetrievals
                  /\ \E fn \in RetrievalFunctions : ret_fn' = fn
                  /\ ret_calls' = ret_calls + 1
                  /\ browser_open' = browser_open \cup {ret_calls + 1}
                  /\ page_navigated' = FALSE
                  /\ waited' = FALSE
                  /\ ret_pc' = "goto"
                  /\ UNCHANGED <<didFrameNavigate, content_reads, OutsideRetrieval>>

\* lines 25-29: the library calls frame_navigated_handler for the page of
\* the call in progress.
FrameNavigated == /\ PageListening
                  /\ didFrameNavigate' = TRUE
                  /\ page_navigated' = TRUE
                  /\ UNCHANGED <<ret_pc, ret_fn, ret_calls, waited, browser_open, content_reads, OutsideRetrieval>>

\* lines 42 and 64: page.goto returns.
GotoReturns == /\ ret_pc = "goto"
               /\ ret_pc' = "wait"
               /\ UNCHANGED <<didFrameNavigate, ret_fn, ret_calls, page_navigated, waited, browser_open, content_reads, OutsideRetrieval>>

\* lines 42 and 64: page.goto raises (navigation error, timeout).
GotoFails == /\ ret_pc = "goto"
             /\ ret_pc' = "failed"
             /\ UNCHANGED <<didFrameNavigate, ret_fn, ret_calls, page_navigated, waited, browser_open, content_reads, OutsideRetrieval>>

\* lines 45-46 and 67-68: one turn of the loop, the flag not being set.
WaitSleep == /\ ret_pc = "wait"
             /\ ~WaitOver
             /\ waited' = TRUE
             /\ UNCHANGED <<didFrameNavigate, ret_pc, ret_fn, ret_calls, page_navigated, browser_open, content_reads, OutsideRetrieval>>

\* lines 45-48 and 67-69: the loop ends.
WaitEnds == /\ ret_pc = "wait"
            /\ WaitOver
            /\ ret_pc' = IF ret_fn = "diseases" THEN "buttons" ELSE "content"
            /\ UNCHANGED <<didFrameNavigate, ret_fn, ret_calls, page_navigated, waited, browser_open, content_reads, OutsideRetrieval>>

\* lines 71-76: the third page-navigator button is taken and clicked; with
\* fewer than three buttons line 72 raises IndexError.
PressButton == /\ ret_pc = "buttons"
               /\ \E n \in ButtonsFound : ret_pc' = IF n >= 3 THEN "content" ELSE "failed"
               /\ UNCHANGED <<didFrameNavigate, ret_fn, ret_calls, page_navigated, waited, browser_open, content_reads, OutsideRetrieval>>

\* lines 49 and 78: page.content() returns the markup.
ReadContent == /\ ret_pc = "content"
               /\ content_reads' = Append(content_reads, [call |-> ret_calls, fn |-> ret_fn, navigated |-> page_navigated, waited |-> waited])
               /\ ret_pc' = "write"
               /\ UNCHANGED <<didFrameNavigate, ret_fn, ret_calls, page_navigated, waited, browser_open, OutsideRetrieval>>

\* lines 49 and 78: page.content() raises.
ContentFails == /\ ret_pc = "content"
                /\ ret_pc' = "failed"
                /\ UNCHANGED <<didFrameNavigate, ret_fn, ret_calls, page_navigated, waited, browser_open, content_reads, OutsideRetrieval>>

\* lines 50-53 and 79-82: the snapshot is written, the browser closed and
\* the markup returned.
WriteSnapshot == /\ ret_pc = "write"
                 /\ browser_open' = browser_open \ {ret_calls}
                 /\ ret_pc' = "returned"
                 /\ UNCHANGED <<didFrameNavigate, ret_fn, ret_calls, page_navigated, waited, content_reads, OutsideRetrieval>>

\* lines 50-51 and 79-80: opening or writing the snapshot file raises.
WriteFails == /\ ret_pc = "write"
              /\ ret_pc' = "failed"
              /\ UNCHANGED <<didFrameNavigate, ret_fn, ret_calls, page_navigated, waited, browser_open, content_reads, OutsideRetrieval>>

NextRetrieval == StartRetrieval \/ FrameNavigated \/ GotoReturns \/ GotoFails \/ WaitSleep \/ WaitEnds \/ PressButton \/ ReadContent \/ ContentFails \/ WriteSnapshot \/ WriteFails

SpecRetrieval == InitRetrieval /\ [][NextRetrieval]_vars

\* The statements of a call follow one another, every library call returns or
\* raises, and the event is delivered while a page is listening for it.
SpecRetrievalLive == /\ SpecRetrieval
                     /\ WF_vars(FrameNavigated)
                     /\ WF_vars(GotoReturns \/ GotoFails)
                     /\ WF_vars(WaitEnds)
                     /\ WF_vars(PressButton)
                     /\ WF_vars(ReadContent \/ ContentFails)
                     /\ WF_vars(WriteSnapshot \/ WriteFails)

\* ------------------------------------------------------------------ C26
\* C26: the content of a page is read only after framenavigated fired on the
\* page of the same call, in the first call and in every later one.
C26_ContentReadAfterNavigation == \A k \in 1..Len(content_reads) : content_reads[k].navigated

\* The first call of a process reads the content after the event.
FirstCallReadsAfterNavigation == \A k \in 1..Len(content_reads) : content_reads[k].call = 1 => content_reads[k].navigated

\* ------------------------------------------------------------------ C27
\* C27: when a call has ended, by return or by failure, the browser it
\* launched is closed.
C27_BrowserClosedOnEveryPath == (ret_pc \in {"idle", "returned", "failed"}) => browser_open = {}

\* The browser is closed on the path that returns.
BrowserClosedOnReturn == ret_pc = "returned" => ret_calls \notin browser_open

SessionIds == {"test-db-session-01", "test-db-session-02"}

\* agent.py lines 769-771: the runner is built from the agent, the app name
\* and the session service; no events-compaction configuration is given.
events_compaction_config == [kind |-> "None"]

\* The runner compacts after a turn when it is configured to and the
\* session's user turns reach a multiple of its interval.
CompactionDue(user_turns) == events_compaction_config.kind # "None" /\ user_turns % events_compaction_config.compaction_interval = 0

\* create_session on an id that is never refused.
CreateNeverRaises(st, id) == FALSE

\* create_session raises on an id the service already holds: the case the
\* except clauses of agent.py line 219 and resume_cli.py line 33 handle.
CreateRaises(st, id) == id \in DOMAIN st

\* create_session: a session without events under the id.
CreateSession(st, id) == [k \in (DOMAIN st) \cup {id} |-> IF k = id THEN << >> ELSE st[k]]

\* The ids and events a log holds, with the id added if it is new.
WithId(log, id) == [k \in (DOMAIN log) \cup {id} |-> IF k \in DOMAIN log THEN log[k] ELSE << >>]

UserTurns(events) == Len(SelectSeq(events, LAMBDA e : e.author = "user"))

\* What one turn of runner.run_async stores: the user's message, the
\* agent's reply and, when due, an event whose actions carry a compaction.
TurnEvents(events, n) == <<[author |-> "user", turn |-> n, compaction |-> FALSE], [author |-> "model", turn |-> n, compaction |-> FALSE]>>
                         \o (IF CompactionDue(UserTurns(events) + 1) THEN <<[author |-> "model", turn |-> n, compaction |-> TRUE]>> ELSE << >>)

InitSession == /\ store = << >>
               /\ recorded = << >>
               /\ session = << >>
               /\ sess_pc = "idle"
               /\ turns = 0
               /\ OutsideSessionIdle

\* agent.py lines 213-223 and resume_cli.py lines 27-36: create, and load
\* when the create raises.
CreateOrLoad == /\ sess_pc = "idle"
                /\ \E id \in SessionIds :
                      IF CreateRaises(store, id)
                      THEN /\ session' = <<[id |-> id, events |-> store[id], created |-> FALSE]>>
                           /\ UNCHANGED <<store, recorded>>
                      ELSE /\ store' = CreateSession(store, id)
                           /\ recorded' = WithId(recorded, id)
                           /\ session' = <<[id |-> id, events |-> << >>, created |-> TRUE]>>
                /\ sess_pc' = "running"
                /\ UNCHANGED <<turns, OutsideSession>>

\* test_compaction.py lines 48-77: load, and create when there is nothing
\* to load.
GetOrCreate == /\ sess_pc = "idle"
               /\ \E id \in SessionIds :
                     IF id \in DOMAIN store
                     THEN /\ session' = <<[id |-> id, events |-> store[id], created |-> FALSE]>>
                          /\ UNCHANGED <<store, recorded>>
                     ELSE /\ store' = CreateSession(store, id)
                          /\ recorded' = WithId(recorded, id)
                          /\ session' = <<[id |-> id, events |-> << >>, created |-> TRUE]>>
               /\ sess_pc' = "running"
               /\ UNCHANGED <<turns, OutsideSession>>

\* agent.py lines 232-249, resume_cli.py lines 57-62, test_compaction.py
\* lines 79-88: one query is run through the runner on the session's id.
RunnerTurn == /\ sess_pc = "running"
              /\ turns < MaxTurns
              /\ LET id == session[1].id
                     new == TurnEvents(store[id], turns + 1)
                 IN /\ store' = [store EXCEPT ![id] = store[id] \o new]
                    /\ recorded' = [recorded EXCEPT ![id] = recorded[id] \o new]
              /\ turns' = turns + 1
              /\ UNCHANGED <<session, sess_pc, OutsideSession>>

\* The run over its queries is over.
EndRun == /\ sess_pc = "running"
          /\ sess_pc' = "idle"
          /\ session' = << >>
          /\ UNCHANGED <<store, recorded, turns, OutsideSession>>

NextSession == CreateOrLoad \/ GetOrCreate \/ RunnerTurn \/ EndRun

SpecSession == InitSession /\ [][NextSession]_vars

C22_CompactionAfterThreeTurns == \A id \in DOMAIN store : UserTurns(store[id]) >= 3 => \E k \in 1..Len(store[id]) : store[id][k].compaction

\* The runner as it is built stores no compaction at all.
NoCompactionStored == \A id \in DOMAIN store : \A k \in 1..Len(store[id]) : ~store[id][k].compaction

====
